---- MODULE Spec2Model ----
(***************************************************************************)
(* Model of the Maya publish hooks of tk-config-juice-work:                *)
(*   hooks/tk-multi-publish2/maya/collector.py                             *)
(*       MayaSessionCollector (camera and render-job collection)           *)
(*   hooks/tk-multi-publish2/maya/publish_render_to_deadline.py            *)
(*       MayaPublishJobToDeadline (accept / validate / publish)            *)
(*                                                                         *)
(* Python strings are sequences of tokens (a token is one character or a   *)
(* literal chunk such as "RenderJob_"); Python values are tagged records.  *)
(* A call that can raise yields a record [exc, val]; exc = "-" means the   *)
(* call returned.                                                          *)
(***************************************************************************)
EXTENDS Integers, Sequences, FiniteSets, TLC

VARIABLES
    sceneFile,   \* short file name of the open scene, <<>> when never saved
    cameras,     \* camera shapes of the scene, in cmds.ls order
    relatives,   \* shape -> what cmds.listRelatives(shape, parent=True) does
    items,       \* every item created so far, in creation order
    dialog,      \* the Deadline submission dialog
    calls,       \* the steps of publish the last hook call attempted
    ret          \* the last hook call: operation, inputs and outcome

vars == <<sceneFile, cameras, relatives, items, dialog, calls, ret>>

------------------------------------------------------------------------------
(* Bounds *)

MaxNameLen == 3
MaxCameras == 2
MaxItems == 6

------------------------------------------------------------------------------
(* Python values *)

NoneV == [t |-> "None"]
FalseV == [t |-> "bool", b |-> FALSE]
Str(s) == [t |-> "str", s |-> s]
TemplateV(name) == [t |-> "template", name |-> name]
IntV(n) == [t |-> "int", n |-> n]

\* "%s" % v
Format(v) ==
    CASE v.t = "None" -> <<"None">>
      [] v.t = "bool" -> IF v.b THEN <<"True">> ELSE <<"False">>
      [] v.t = "str" -> v.s
      [] OTHER -> <<"<object>">>

\* bool(v), as "if not v" reads it
Truthy(v) ==
    CASE v.t = "None" -> FALSE
      [] v.t = "bool" -> v.b
      [] v.t = "str" -> Len(v.s) > 0
      [] v.t = "int" -> v.n # 0
      [] OTHER -> TRUE

Returned(v) == [exc |-> "-", val |-> v]
Raised(e) == [exc |-> e, val |-> NoneV]

\* properties[k] = v
Put(props, k, v) ==
    [x \in (DOMAIN props) \cup {k} |-> IF x = k THEN v ELSE props[x]]

\* All sequences over alphabet S of length at most n
RECURSIVE SeqsUpTo(_, _)
SeqsUpTo(S, n) ==
    IF n = 0 THEN {<<>>}
    ELSE LET shorter == SeqsUpTo(S, n - 1)
         IN shorter \cup {Append(s, c) : s \in shorter, c \in S}

------------------------------------------------------------------------------
(* The Maya scene *)

NameChars == {"a", "."}
SceneFiles == SeqsUpTo(NameChars, MaxNameLen)
SceneDir == <<"/", "scenes", "/">>

CameraShapes == <<"perspShape", "topShape", "sideShape">>
LookupOutcomes == {"parent", "none", "error"}

\* the transform above a camera shape
TransformOf(shape) ==
    CASE shape = "perspShape" -> <<"persp">>
      [] shape = "topShape" -> <<"top">>
      [] OTHER -> <<"side">>

\* cmds.ls(cameras=True): the first n shapes
CameraLists == {SubSeq(CameraShapes, 1, n) : n \in 0..MaxCameras}

\* cmds.file(query=True, sceneName=True, shortName=True)
file_shortName == sceneFile

\* cmds.file(query=True, sn=True): the full path, empty for an unsaved scene
file_sceneName == IF Len(sceneFile) = 0 THEN <<>> ELSE SceneDir \o sceneFile

\* str.split('.')
RECURSIVE SplitDot(_)
SplitDot(s) ==
    IF \A k \in 1..Len(s) : s[k] # "."
    THEN <<s>>
    ELSE LET k == CHOOSE k \in 1..Len(s) :
                      s[k] = "." /\ \A j \in 1..(k - 1) : s[j] # "."
         IN <<SubSeq(s, 1, k - 1)>> \o SplitDot(SubSeq(s, k + 1, Len(s)))

------------------------------------------------------------------------------
(* Items *)

\* parent_item.create_item(type_spec, display_type, name): a new item with an
\* empty property bag, context change allowed, no icon
create_item(parent, type_spec, display_type, name) ==
    [type_spec |-> type_spec,
     display_type |-> display_type,
     name |-> name,
     icon |-> "-",
     parent |-> parent,
     context_change_allowed |-> TRUE,
     properties |-> [k \in {} |-> NoneV]]

HasProp(item, k) == k \in DOMAIN item.properties

SetProp(its, i, k, v) ==
    [its EXCEPT ![i].properties = Put(its[i].properties, k, v)]

ItemsOfType(its, type_spec) ==
    {k \in 1..Len(its) : its[k].type_spec = type_spec}

\* what the host did during a hook call: whether the SubmitJobToDeadline
\* command exists, what the base class validate did, which host step of
\* publish raised (0: none), what find_one returned
HostInput(command_exists, base, fail_at, record) ==
    [command_exists |-> command_exists, base |-> base,
     fail_at |-> fail_at, record |-> record]

NoHost == HostInput(TRUE, "-", 0, "-")

\* how a call ends
Ret(value) == [outcome |-> "returned", value |-> value, exc |-> "-"]
Raise(exc) == [outcome |-> "raised", value |-> "-", exc |-> exc]

\* the last hook call: operation, inputs and outcome
Call(op, item, setting, host, result) ==
    [op |-> op, item |-> item, setting |-> setting, host |-> host,
     outcome |-> result.outcome, value |-> result.value, exc |-> result.exc]

NoCall == Call("-", 0, NoneV, NoHost, [outcome |-> "-", value |-> "-", exc |-> "-"])

------------------------------------------------------------------------------
(* MayaSessionCollector *)

\* the session item the base collector creates under the root
BaseSessionItem ==
    create_item(0, "maya.session", "Maya Session", <<"Current Maya Session">>)

\* the body of _get_scene_name on a short file name: False for an unsaved
\* scene, else split('.')[-2]
SceneNameOf(scene_name) ==
    LET parts == SplitDot(scene_name)
    IN IF Len(scene_name) = 0 THEN Returned(FalseV)
       ELSE IF Len(parts) < 2 THEN Raised("IndexError")
       ELSE Returned(Str(parts[Len(parts) - 1]))

\* _get_scene_name
get_scene_name == SceneNameOf(file_shortName)

\* mutant: no fallback to the shape name when the parent lookup fails
CameraName_NoFallback(shape) == TransformOf(shape)

\* the camera display name: the transform parent, or the shape when
\* listRelatives(...)[0] raises (None[0], or the command's own error)
CameraName(shape) ==
    IF relatives[shape] = "parent" THEN TransformOf(shape) ELSE <<shape>>

\* the item _collect_cameras creates for one shape
CameraItem(session, shape) ==
    LET camera_name == CameraName(shape)
        cam_item == create_item(session, "maya.session.camera", "Camera",
                                camera_name)
    IN [cam_item EXCEPT
          !.icon = "publish_maya_camera.png",
          !.properties = Put(Put(cam_item.properties,
                                 "camera_name", Str(camera_name)),
                             "camera_shape", Str(<<shape>>))]

\* _collect_cameras: one item per camera shape, in cmds.ls order
RECURSIVE collect_cameras(_, _, _)
collect_cameras(its, session, shapes) ==
    IF Len(shapes) = 0 THEN its
    ELSE collect_cameras(Append(its, CameraItem(session, Head(shapes))),
                         session, Tail(shapes))

\* mutant: the render-job item is created with render_job_name left at None
RenderJobItem_NoJobName(session, scene_name) ==
    LET render_job_name == <<"RenderJob_">> \o Format(scene_name)
        render_job_item == create_item(session, "maya.session.render_job",
                                       "Render Job", render_job_name)
    IN [render_job_item EXCEPT
          !.icon = "publish_render_job.png",
          !.properties = Put(render_job_item.properties,
                             "render_job_name", NoneV)]

\* the item _collect_render_job creates, given the scene name it derived
RenderJobItem(session, scene_name) ==
    LET render_job_name == <<"RenderJob_">> \o Format(scene_name)
        render_job_item == create_item(session, "maya.session.render_job",
                                       "Render Job", render_job_name)
    IN [render_job_item EXCEPT
          !.icon = "publish_render_job.png",
          !.properties = Put(render_job_item.properties,
                             "render_job_name", Str(render_job_name))]

\* _collect_render_job: raises when _get_scene_name raises, before any item
\* is created
collect_render_job(its, session) ==
    LET scene_name == get_scene_name
    IN IF scene_name.exc # "-" THEN [exc |-> scene_name.exc, items |-> its]
       ELSE [exc |-> "-",
             items |-> Append(its, RenderJobItem(session, scene_name.val))]

\* process_current_session(settings, parent_item); base_creates is whether
\* the base collector put a session item under parent_item
process_current_session(base_creates) ==
    /\ Len(items) + Len(cameras) + 2 <= MaxItems
    /\ LET after_base == IF base_creates THEN Append(items, BaseSessionItem)
                         ELSE items
           sessions == ItemsOfType(after_base, "maya.session")
       IN IF sessions = {}
          THEN /\ items' = after_base
               /\ ret' = Call("process_current_session", 0, NoneV, NoHost,
                              Ret("None"))
          ELSE LET session_item == CHOOSE k \in sessions :
                                       \A j \in sessions : k <= j
                   with_cameras == collect_cameras(after_base, session_item,
                                                   cameras)
                   job == collect_render_job(with_cameras, session_item)
               IN /\ items' = job.items
                  /\ ret' = Call("process_current_session", session_item,
                              NoneV, NoHost,
                              IF job.exc = "-" THEN Ret("None")
                              ELSE Raise(job.exc))
    /\ calls' = <<>>
    /\ UNCHANGED <<sceneFile, cameras, relatives, dialog>>

------------------------------------------------------------------------------
(* Toolkit fixtures: the templates of the configuration, the context *)

\* tk.templates: template name -> the path apply_fields yields in the context
TemplateKeys == {<<"maya_shot_render">>}

apply_fields(name) == <<"/", "proj", "/", "renders">>

\* the values the "Publish Template" setting can hold: unset, empty, a
\* template of the configuration, a name the configuration does not define
TemplateSettings ==
    {NoneV, Str(<<>>), Str(<<"maya_shot_render">>), Str(<<"no_such_template">>)}

IsTemplateKey(v) == v.t = "str" /\ v.s \in TemplateKeys

\* publisher.get_template_by_name(name): templates.get(name)
get_template_by_name(template_name) ==
    IF IsTemplateKey(template_name) THEN TemplateV(template_name.s) ELSE NoneV

\* current_engine.context
Context == [project |-> 7, task |-> 42, user |-> 3]

\* decimal digits of a natural number
RECURSIVE IntStr(_)
IntStr(n) ==
    LET digit == <<"0", "1", "2", "3", "4", "5", "6", "7", "8", "9">>
    IN IF n < 10 THEN <<digit[n + 1]>>
       ELSE IntStr(n \div 10) \o <<digit[(n % 10) + 1]>>

\* path.rstrip("/")
RECURSIVE StripTrailingSlashes(_)
StripTrailingSlashes(s) ==
    IF Len(s) > 0 /\ s[Len(s)] = "/"
    THEN StripTrailingSlashes(SubSeq(s, 1, Len(s) - 1))
    ELSE s

\* path.replace("//", "/") until nothing changes
RECURSIVE CollapseSlashes(_)
CollapseSlashes(s) ==
    IF Len(s) < 2 THEN s
    ELSE IF s[1] = "/" /\ s[2] = "/" THEN CollapseSlashes(Tail(s))
    ELSE <<s[1]>> \o CollapseSlashes(Tail(s))

\* sgtk.util.ShotgunPath.normalize
normalize(path) == CollapseSlashes(StripTrailingSlashes(path))

------------------------------------------------------------------------------
(* The Deadline submission dialog *)

ClosedDialog == [open |-> FALSE, fields |-> [k \in {} |-> NoneV]]

\* mel.eval('SubmitJobToDeadline') builds the dialog anew, no field edited
OpenedDialog == [open |-> TRUE, fields |-> [k \in {} |-> NoneV]]

\* the widgets publish queries and then edits, in the order of the source
DialogFields ==
    <<"frw_JobName", "frw_Department", "frw_deadlinePool",
      "frw_deadlineSecondaryPool", "frw_Group", "frw_outputFilePath",
      "frw_FrameList", "frw_JobPriority">>

JobPriority == 90

------------------------------------------------------------------------------
(* MayaPublishJobToDeadline *)

\* _get_render_output(job_name, template_name): tk.templates[template_name]
\* raises KeyError for a name that is no template
get_render_output(job_name, template_name) ==
    IF ~IsTemplateKey(template_name) THEN Raised("KeyError")
    ELSE Returned(Str(normalize(apply_fields(template_name.s)
                                \o <<"/">> \o Format(job_name) \o <<"/">>)))

\* _session_path()
session_path == file_sceneName

\* mutant: the probe's answer read the wrong way round
check_submit_command_Inverted(command_exists) ==
    IF command_exists THEN "accepted:False" ELSE "None"

\* _check_submit_command: {"accepted": False} when the command is missing
check_submit_command(command_exists) ==
    IF ~command_exists THEN "accepted:False" ELSE "None"

\* mutant: context change is allowed again when no template resolves
accept_item_Reenabling(item, publish_template) ==
    IF Truthy(publish_template)
    THEN [item EXCEPT
            !.properties = Put(item.properties, "publish_template",
                               publish_template),
            !.context_change_allowed = FALSE]
    ELSE [item EXCEPT !.context_change_allowed = TRUE]

\* what accept does to the item once the job name is there: the template is
\* stored and context change disabled when the template resolves
accept_item(item, publish_template) ==
    IF Truthy(publish_template)
    THEN [item EXCEPT
            !.properties = Put(item.properties, "publish_template",
                               publish_template),
            !.context_change_allowed = FALSE]
    ELSE item

\* whether accept gets past the job-name check
HasJobName(item) ==
    HasProp(item, "render_job_name") /\ item.properties["render_job_name"] # NoneV

\* how accept ends
accept_result(item, template_name, command_exists) ==
    IF ~HasProp(item, "render_job_name") THEN Raise("KeyError")
    ELSE IF item.properties["render_job_name"] = NoneV
    THEN Ret("accepted:False")
    ELSE IF ~Truthy(get_template_by_name(template_name))
    THEN Ret("accepted:False")
    ELSE IF check_submit_command(command_exists) # "None"
    THEN Ret(check_submit_command(command_exists))
    ELSE Ret("accepted:True")

\* accept(settings, item); command_exists is read only when the probe is
\* reached
accept(i, template_name, command_exists) ==
    LET item == items[i]
        publish_template == get_template_by_name(template_name)
    IN /\ ~(HasJobName(item) /\ Truthy(publish_template)) => command_exists
       /\ items' = IF HasJobName(item)
                   THEN [items EXCEPT ![i] = accept_item(item, publish_template)]
                   ELSE items
       /\ ret' = Call("accept", i, template_name,
                      HostInput(command_exists, "-", 0, "-"),
                      accept_result(item, template_name, command_exists))
       /\ calls' = <<>>
       /\ UNCHANGED <<sceneFile, cameras, relatives, dialog>>

\* the path validate stores: the render output with the job name appended
validate_path(job_name, template_name) ==
    LET render_output == get_render_output(job_name, template_name)
    IN IF render_output.exc # "-" THEN render_output
       ELSE Returned(Str(render_output.val.s \o <<"/">> \o Format(job_name)))

\* mutant: the job name and template checks come before the session check
validate_checks_SessionLast(job_name, template_name, base) ==
    IF ~Truthy(job_name) THEN Ret("False")
    ELSE IF ~Truthy(template_name) THEN Ret("False")
    ELSE IF Len(session_path) = 0
    THEN Raise("The Maya session has not been saved.")
    ELSE IF base = "raise" THEN Raise("BaseError")
    ELSE Ret(base)

\* mutant: validate without the check of the session path
validate_checks_NoSessionCheck(job_name, template_name, base) ==
    IF ~Truthy(job_name) THEN Ret("False")
    ELSE IF ~Truthy(template_name) THEN Ret("False")
    ELSE IF base = "raise" THEN Raise("BaseError")
    ELSE Ret(base)

\* the checks of validate after the path is stored
validate_checks(job_name, template_name, base) ==
    IF Len(session_path) = 0
    THEN Raise("The Maya session has not been saved.")
    ELSE IF ~Truthy(job_name) THEN Ret("False")
    ELSE IF ~Truthy(template_name) THEN Ret("False")
    ELSE IF base = "raise" THEN Raise("BaseError")
    ELSE Ret(base)

\* whether validate reaches the base class validate
ReachesBaseValidate(item, template_name) ==
    /\ HasProp(item, "render_job_name")
    /\ IsTemplateKey(template_name)
    /\ Len(session_path) > 0
    /\ Truthy(item.properties["render_job_name"])

\* validate(settings, item); base is what the base class validate does, read
\* only when it is reached
validate(i, template_name, base) ==
    LET item == items[i]
        job_name == item.properties["render_job_name"]
        path == validate_path(job_name, template_name)
    IN /\ ~ReachesBaseValidate(item, template_name) => base = "True"
       /\ IF ~HasProp(item, "render_job_name")
          THEN /\ items' = items
               /\ ret' = Call("validate", i, template_name,
                              HostInput(TRUE, base, 0, "-"), Raise("KeyError"))
          ELSE IF path.exc # "-"
          THEN /\ items' = items
               /\ ret' = Call("validate", i, template_name,
                              HostInput(TRUE, base, 0, "-"), Raise(path.exc))
          ELSE /\ items' = SetProp(items, i, "path", path.val)
               /\ ret' = Call("validate", i, template_name,
                              HostInput(TRUE, base, 0, "-"),
                              validate_checks(job_name, template_name, base))
       /\ calls' = <<>>
       /\ UNCHANGED <<sceneFile, cameras, relatives, dialog>>

\* mutant: publish appends the job name as validate does
publish_path_WithJobName(job_name, template_name) ==
    validate_path(job_name, template_name)

\* the path publish computes and stores: the render output as it is
publish_path(job_name, template_name) ==
    get_render_output(job_name, template_name)

\* the steps of publish, in the order of the source
PublishSteps ==
    <<"ShotgunAuthenticator", "DefaultsManager", "get_user_credentials",
      "create_session_user", "create_sg_connection", "SubmitJobToDeadline",
      "render_job_name", "Publish Template", "_get_render_output",
      "current_engine", "ctx.user", "find_one", "department",
      "department.name", "data", "playbackOptions.min", "playbackOptions.max",
      "query:frw_JobName", "query:frw_Department", "query:frw_deadlinePool",
      "query:frw_deadlineSecondaryPool", "query:frw_Group",
      "query:frw_outputFilePath", "query:frw_FrameList",
      "query:frw_JobPriority",
      "edit:frw_JobName", "edit:frw_Department", "edit:frw_deadlinePool",
      "edit:frw_deadlineSecondaryPool", "edit:frw_Group",
      "edit:frw_outputFilePath", "edit:frw_FrameList", "edit:frw_JobPriority",
      "properties.path", "super.publish">>

StepIndex(name) == CHOOSE k \in 1..Len(PublishSteps) : PublishSteps[k] = name

\* the step that edits a widget
EditStep(field) ==
    CASE field = "frw_JobName" -> "edit:frw_JobName"
      [] field = "frw_Department" -> "edit:frw_Department"
      [] field = "frw_deadlinePool" -> "edit:frw_deadlinePool"
      [] field = "frw_deadlineSecondaryPool" -> "edit:frw_deadlineSecondaryPool"
      [] field = "frw_Group" -> "edit:frw_Group"
      [] field = "frw_outputFilePath" -> "edit:frw_outputFilePath"
      [] field = "frw_FrameList" -> "edit:frw_FrameList"
      [] OTHER -> "edit:frw_JobPriority"

\* the steps that call out of the hook (authentication, tracking service, host
\* commands, base class) and so can raise whatever the item and settings are
HostSteps ==
    {k \in 1..Len(PublishSteps) :
        PublishSteps[k] \notin {"render_job_name", "Publish Template",
                                "_get_render_output", "department",
                                "department.name", "data", "properties.path"}}

\* what sg.find_one returns for the user: no record, a record with a null
\* department, a record with a department
FindOneResults == {"no_record", "null_department", "department"}

\* department = department['department']; then ['name'] unless it is None
DepartmentOf(record) ==
    CASE record = "no_record" -> Raised("TypeError")
      [] record = "null_department" -> Returned(NoneV)
      [] OTHER -> Returned(Str(<<"Lighting">>))

\* cmds.playbackOptions(min/max), in tenths of a frame
FrameRanges == {<<10, 249>>}

\* int(x) for x >= 0 given in tenths
IntOfTenths(x) == x \div 10

\* str(data) for data = {'project_id': .., 'task_id': .., 'user_id': ..}
DataRepr ==
    <<"{'project_id': ">> \o IntStr(Context.project)
    \o <<", 'task_id': ">> \o IntStr(Context.task)
    \o <<", 'user_id': ">> \o IntStr(Context.user) \o <<"}">>

\* the step at which the item, the setting or the user record makes publish
\* raise, 0 when none does: properties["render_job_name"] on a bag without
\* the key, tk.templates[name] on a name that is no template, None['department']
DataRaise(item, template_name, record) ==
    IF ~HasProp(item, "render_job_name") THEN StepIndex("render_job_name")
    ELSE IF ~IsTemplateKey(template_name) THEN StepIndex("_get_render_output")
    ELSE IF DepartmentOf(record).exc # "-" THEN StepIndex("department")
    ELSE 0

\* the earlier of two raising steps, 0 standing for no raise
Earlier(a, b) == IF a = 0 THEN b ELSE IF b = 0 \/ a < b THEN a ELSE b

\* the step of publish that raises first, 0 when none does; fail_at is the
\* host step that raises (0: none)
FirstRaise(item, template_name, fail_at, record) ==
    Earlier(fail_at, DataRaise(item, template_name, record))

\* the exception publish lets out when step k raises
PublishError(k, fail_at) ==
    IF k = fail_at THEN "HostError"
    ELSE IF k = StepIndex("department") THEN "TypeError"
    ELSE "KeyError"

\* mutant: the raising step is tried once more
Attempted_Retry(stop) ==
    IF stop = 0 THEN PublishSteps
    ELSE SubSeq(PublishSteps, 1, stop) \o <<PublishSteps[stop]>>

\* the steps publish attempts when the first raise is at step stop
Attempted(stop) ==
    IF stop = 0 THEN PublishSteps ELSE SubSeq(PublishSteps, 1, stop)

\* what each edit call writes to its widget
FieldEdit(field, job_name, department, render_output, frames) ==
    CASE field = "frw_JobName" ->
           [value |-> Str(Format(job_name) \o <<"_SG_DATA_">> \o DataRepr),
            enable |-> "False"]
      [] field = "frw_Department" ->
           [value |-> department, enable |-> "False"]
      [] field = "frw_deadlinePool" ->
           [value |-> Str(<<"maya">>), enable |-> "-"]
      [] field = "frw_deadlineSecondaryPool" ->
           [value |-> Str(<<"maya">>), enable |-> "-"]
      [] field = "frw_Group" ->
           [value |-> Str(<<"64">>), enable |-> "-"]
      [] field = "frw_outputFilePath" ->
           [value |-> render_output, enable |-> "-"]
      [] field = "frw_FrameList" ->
           [value |-> Str(IntStr(IntOfTenths(frames[1])) \o <<"-">>
                          \o IntStr(IntOfTenths(frames[2]))),
            enable |-> "True"]
      [] OTHER ->
           [value |-> IntV(JobPriority), enable |-> "-"]

\* the effects of publish when its first raise is at step stop (0: none):
\* straight-line code, so the steps attempted are a prefix of PublishSteps
\* and a step takes effect only if no earlier one raised
publish_upto(i, template_name, fail_at, record, frames, stop) ==
    LET item == items[i]
        done(name) == stop = 0 \/ StepIndex(name) < stop
        job_name == item.properties["render_job_name"]
        render_output == publish_path(job_name, template_name).val
        department == DepartmentOf(record).val
        edited == {f \in {DialogFields[k] : k \in 1..Len(DialogFields)} :
                      done(EditStep(f))}
    IN /\ calls' = Attempted(stop)
       /\ dialog' = IF done("SubmitJobToDeadline")
                    THEN [OpenedDialog EXCEPT
                            !.fields = [f \in edited |->
                                          FieldEdit(f, job_name, department,
                                                    render_output, frames)]]
                    ELSE dialog
       /\ items' = IF done("properties.path")
                   THEN SetProp(items, i, "path", render_output)
                   ELSE items
       /\ ret' = Call("publish", i, template_name,
                      HostInput(TRUE, "-", fail_at, record),
                      IF stop = 0 THEN Ret("None")
                      ELSE Raise(PublishError(stop, fail_at)))
       /\ UNCHANGED <<sceneFile, cameras, relatives>>

\* publish(settings, item). The inputs are taken in canonical form: a host
\* step named as raising is the first raise, and the record of a find_one
\* that is never reached is left at its first value.
publish(i, template_name, fail_at, record, frames) ==
    \E stop \in {FirstRaise(items[i], template_name, fail_at, record)} :
        /\ fail_at # 0 => stop = fail_at
        /\ (stop # 0 /\ stop <= StepIndex("find_one")) => record = "department"
        /\ publish_upto(i, template_name, fail_at, record, frames, stop)

------------------------------------------------------------------------------
(* Plugin specification: one render-job item handed to the publish plugin,  *)
(* with a job name the collector derives or one it cannot (unset, None,     *)
(* empty), in a saved or a never-saved scene.                               *)

\* the scenes the plugin runs in: never saved, saved
PluginSceneFiles == {<<>>, <<"a", ".", "a">>}

\* the render-job item the collector creates in a saved scene
CollectedJobItems ==
    {RenderJobItem(0, SceneNameOf(f).val) : f \in PluginSceneFiles \ {<<>>}}

\* render-job items of other origin: no job name, None, the empty string
ForeignJobItems ==
    LET bare == create_item(0, "maya.session.render_job", "Render Job",
                            <<"RenderJob">>)
    IN {bare,
        [bare EXCEPT !.properties = Put(bare.properties, "render_job_name", NoneV)],
        [bare EXCEPT !.properties = Put(bare.properties, "render_job_name", Str(<<>>))]}

Init ==
    /\ sceneFile \in PluginSceneFiles
    /\ cameras = <<>>
    /\ relatives = <<>>
    /\ items \in {<<it>> : it \in CollectedJobItems \cup ForeignJobItems}
    /\ dialog = ClosedDialog
    /\ calls = <<>>
    /\ ret = NoCall

\* the items the plugin's item_filters let through
Accepted == ItemsOfType(items, "maya.session.render_job")

Next ==
    \/ \E i \in Accepted, t \in TemplateSettings, c \in BOOLEAN :
           accept(i, t, c)
    \/ \E i \in Accepted, t \in TemplateSettings,
          b \in {"True", "False", "raise"} :
           validate(i, t, b)
    \/ \E i \in Accepted, t \in TemplateSettings, k \in HostSteps \cup {0},
          r \in FindOneResults, f \in FrameRanges :
           publish(i, t, k, r, f)

Spec == Init /\ [][Next]_vars

------------------------------------------------------------------------------
(* Collector specification: any scene, an empty item tree *)

InitCollector ==
    /\ sceneFile \in SceneFiles
    /\ cameras \in CameraLists
    /\ relatives \in [{cameras[k] : k \in 1..Len(cameras)} -> LookupOutcomes]
    /\ items = <<>>
    /\ dialog = ClosedDialog
    /\ calls = <<>>
    /\ ret = NoCall

NextCollector == \E base_creates \in BOOLEAN : process_current_session(base_creates)

SpecCollector == InitCollector /\ [][NextCollector]_vars

------------------------------------------------------------------------------
(* Pipeline specification: one publish session. The framework runs one       *)
(* collection pass over an empty item tree and then takes each render-job    *)
(* item through accept, validate and publish in that order, with the same    *)
(* "Publish Template" setting; a False or an exception at a stage halts the  *)
(* item.                                                                     *)

InitPipeline ==
    /\ sceneFile \in SceneFiles
    /\ cameras \in CameraLists
    /\ relatives \in [{cameras[k] : k \in 1..Len(cameras)} -> LookupOutcomes]
    /\ items = <<>>
    /\ dialog = ClosedDialog
    /\ calls = <<>>
    /\ ret = NoCall

\* nothing collected yet: the collection pass of the session is due
ReadyToCollect == ret.op = "-" /\ items = <<>>

\* collected: the collection pass returned and created item i
ReadyToAccept(i) ==
    /\ ret.op = "process_current_session"
    /\ ret.outcome = "returned"
    /\ i \in Accepted

\* accepted: accept returned {"accepted": True} for item i
ReadyToValidate(i) ==
    /\ ret.op = "accept"
    /\ ret.item = i
    /\ ret.outcome = "returned"
    /\ ret.value = "accepted:True"

\* validated: validate returned True for item i
ReadyToPublish(i) ==
    /\ ret.op = "validate"
    /\ ret.item = i
    /\ ret.outcome = "returned"
    /\ ret.value = "True"

NextPipeline ==
    \/ /\ ReadyToCollect
       /\ \E base_creates \in BOOLEAN : process_current_session(base_creates)
    \/ \E i \in Accepted, t \in TemplateSettings, c \in BOOLEAN :
           ReadyToAccept(i) /\ accept(i, t, c)
    \/ \E i \in Accepted, b \in {"True", "False", "raise"} :
           ReadyToValidate(i) /\ validate(i, ret.setting, b)
    \/ \E i \in Accepted, k \in HostSteps \cup {0}, r \in FindOneResults,
          f \in FrameRanges :
           ReadyToPublish(i) /\ publish(i, ret.setting, k, r, f)

SpecPipeline == InitPipeline /\ [][NextPipeline]_vars

------------------------------------------------------------------------------
(* Collector claims *)

\* the items a step created
NewItems == (Len(items) + 1)..Len(items')

NewOfType(type_spec) == {k \in NewItems : items'[k].type_spec = type_spec}

CollectStep == ret'.op = "process_current_session"

\* C6: one collection pass creates exactly one render-job item when a session
\* item exists among the descendants and no camera or render-job item
\* otherwise; it never raises, whatever the scene file name; for a never-saved
\* scene the render-job item is named "RenderJob_False".
C6_OnePassOneRenderJob ==
    [][CollectStep =>
        /\ ret'.outcome = "returned"
        /\ IF ItemsOfType(items', "maya.session") # {}
           THEN /\ Cardinality(NewOfType("maya.session.render_job")) = 1
                /\ Len(sceneFile) = 0 =>
                     \A k \in NewOfType("maya.session.render_job") :
                         items'[k].name = <<"RenderJob_", "False">>
           ELSE /\ NewOfType("maya.session.render_job") = {}
                /\ NewOfType("maya.session.camera") = {}]_vars

\* C7: with a session item present, one pass creates exactly one camera item
\* per camera shape under the session item; camera_shape is the shape,
\* camera_name and the display name are the transform parent when the lookup
\* succeeds and the shape itself when it fails, and the pass goes on to the
\* next shape either way.
C7_OneItemPerCamera ==
    [][(CollectStep /\ ItemsOfType(items', "maya.session") # {}) =>
        LET cams == NewOfType("maya.session.camera")
        IN /\ Cardinality(cams) = Len(cameras)
           /\ \A j \in 1..Len(cameras) :
                \E k \in cams :
                    /\ items'[k].properties["camera_shape"] = Str(<<cameras[j]>>)
                    /\ items'[k].parent = ret'.item
                    /\ items'[k].type_spec = "maya.session.camera"
                    /\ items'[k].properties["camera_name"] =
                         (IF relatives[cameras[j]] = "parent"
                          THEN Str(TransformOf(cameras[j]))
                          ELSE Str(<<cameras[j]>>))
                    /\ items'[k].name =
                         items'[k].properties["camera_name"].s]_vars

\* C7 witness: a pass over two cameras, one named after its transform and one
\* that fell back to its shape name.
C7_Witness ==
    /\ ret.op = "process_current_session"
    /\ Len(cameras) = 2
    /\ Cardinality(ItemsOfType(items, "maya.session.camera")) = 2
    /\ \E k \in ItemsOfType(items, "maya.session.camera") :
           items[k].properties["camera_name"] = items[k].properties["camera_shape"]
    /\ \E k \in ItemsOfType(items, "maya.session.camera") :
           items[k].properties["camera_name"] # items[k].properties["camera_shape"]

------------------------------------------------------------------------------
(* Publisher claims *)

\* the item of the last hook call
LastItem == items[ret.item]

JobNameOf(item) == item.properties["render_job_name"]

\* C1: validate raises whenever the session path is empty, whatever the
\* item's render_job_name and the "Publish Template" setting; it never
\* returns True or False in that case.
C1_ValidateRaisesWhenUnsaved ==
    (ret.op = "validate" /\ Len(session_path) = 0) => ret.outcome = "raised"

\* C1 witness: validate of an item with a job name and a resolvable template
\* in a never-saved scene ended with the "not saved" error.
C1_Witness ==
    /\ ret.op = "validate"
    /\ Len(session_path) = 0
    /\ IsTemplateKey(ret.setting)
    /\ HasProp(LastItem, "render_job_name")
    /\ Truthy(JobNameOf(LastItem))
    /\ ret.exc = "The Maya session has not been saved."

\* C2: in a saved session validate returns False, without raising, when the
\* item's render_job_name is None or empty or when the "Publish Template"
\* value is None or empty.
C2_ValidateFalseOnGaps ==
    (/\ ret.op = "validate"
     /\ Len(session_path) > 0
     /\ HasProp(LastItem, "render_job_name")
     /\ (~Truthy(JobNameOf(LastItem)) \/ ~Truthy(ret.setting)))
    => (ret.outcome = "returned" /\ ret.value = "False")

\* C3: accept returns {"accepted": False} whenever render_job_name is absent
\* from the property bag or None, whatever the template setting and the
\* submit command; it does not raise and does not change the item.
C3_AcceptRejectsMissingJobName ==
    [][(ret'.op = "accept" /\ ~HasJobName(items[ret'.item])) =>
          /\ ret'.outcome = "returned"
          /\ ret'.value = "accepted:False"
          /\ items' = items]_vars

\* a step in which publish runs to its end on the item and with the setting
\* of a validate call that has just stored its path
PublishAfterValidate ==
    /\ ret.op = "validate"
    /\ ret.outcome = "returned"
    /\ ret'.op = "publish"
    /\ ret'.outcome = "returned"
    /\ ret'.item = ret.item
    /\ ret'.setting = ret.setting

\* C4 as claimed: the path publish stores in item.properties["path"] is the
\* value validate stored there for the same item, settings and context.
C4_PublishPathEqualsValidatePath ==
    [][PublishAfterValidate =>
          items'[ret.item].properties["path"]
              = items[ret.item].properties["path"]]_vars

\* C4 amended: the path validate stored is the path publish stores followed
\* by "/" and the job name; the two are never equal.
C4_ValidatePathIsPublishPathPlusJobName ==
    [][PublishAfterValidate =>
          /\ items[ret.item].properties["path"] =
               Str(items'[ret.item].properties["path"].s \o <<"/">>
                   \o Format(JobNameOf(items[ret.item])))
          /\ items'[ret.item].properties["path"]
               # items[ret.item].properties["path"]]_vars

\* C4 witness: publish has written the output path it computed to the dialog
\* and raised before storing it, so the item still holds the path validate
\* stored: that path is the dialog's followed by "/" and the job name.
C4_Witness ==
    /\ ret.op = "publish"
    /\ "frw_outputFilePath" \in DOMAIN dialog.fields
    /\ HasProp(LastItem, "path")
    /\ LastItem.properties["path"] # dialog.fields["frw_outputFilePath"].value
    /\ LastItem.properties["path"] =
         Str(dialog.fields["frw_outputFilePath"].value.s \o <<"/">>
             \o Format(JobNameOf(LastItem)))

\* publish got a result from find_one
FindOneReturned == ret.op = "publish" /\ Len(calls) > StepIndex("find_one")

\* C5: the department written to the department field is None both when
\* find_one yields no record and when the record's department is null, and
\* the lookup raises in neither case; otherwise it is the department's name.
C5_DepartmentNoneWhenMissing ==
    FindOneReturned =>
        /\ ~(ret.outcome = "raised"
             /\ calls[Len(calls)] \in {"department", "department.name"})
        /\ "frw_Department" \in DOMAIN dialog.fields =>
             dialog.fields["frw_Department"].value =
                 (IF ret.host.record \in {"no_record", "null_department"}
                  THEN NoneV ELSE Str(<<"Lighting">>))

\* C8: once accept has set context_change_allowed to False on an item it is
\* False in every later state.
C8_ContextChangeStaysDisabled ==
    [][\A i \in 1..Len(items) :
          ~items[i].context_change_allowed =>
              (i <= Len(items') /\ ~items'[i].context_change_allowed)]_vars

\* C8 witness: context change is disabled on an item and accept has since
\* run again without resolving a template, then publish.
C8_Witness ==
    /\ ret.op = "publish"
    /\ ~IsTemplateKey(ret.setting)
    /\ ~LastItem.context_change_allowed
    /\ HasProp(LastItem, "path")

\* C9: when a step of publish raises, the exception leaves publish and no
\* later step runs: the steps attempted are the steps of the source up to the
\* raising one, each once; a raise before the path is stored leaves the item
\* as it was and the base class publish uninvoked; no widget past the raising
\* step is edited.
C9_PublishStopsAtFirstRaise ==
    [][ret'.op = "publish" =>
          /\ Cardinality({calls'[k] : k \in 1..Len(calls')}) = Len(calls')
          /\ Len(calls') <= Len(PublishSteps)
          /\ calls' = SubSeq(PublishSteps, 1, Len(calls'))
          /\ ret'.host.fail_at # 0 =>
               /\ ret'.outcome = "raised"
               /\ Len(calls') = ret'.host.fail_at
          /\ ret'.outcome = "returned" => Len(calls') = Len(PublishSteps)
          /\ ret'.outcome = "raised" =>
               /\ Len(calls') >= 1
               /\ Len(calls') <= StepIndex("properties.path") =>
                    /\ items' = items
                    /\ \A k \in 1..Len(calls') : calls'[k] # "super.publish"
               /\ IF Len(calls') <= StepIndex("SubmitJobToDeadline")
                  THEN dialog' = dialog
                  ELSE \A f \in DOMAIN dialog'.fields :
                           StepIndex(EditStep(f)) < Len(calls')]_vars

\* C9 witness: editing the department field raised, after validate had stored
\* a path: the job name field is edited, the department field is not.
C9_Witness ==
    /\ ret.op = "publish"
    /\ ret.outcome = "raised"
    /\ ret.exc = "HostError"
    /\ calls[Len(calls)] = "edit:frw_Department"
    /\ DOMAIN dialog.fields = {"frw_JobName"}
    /\ HasProp(LastItem, "path")

\* C10: for an item whose render_job_name is not None, accept returns
\* {"accepted": True} iff the template name resolves and the submit command
\* exists, and {"accepted": False} otherwise; publish_template and
\* context_change_allowed = False are set exactly when the template
\* resolves, also when the command is missing.
C10_AcceptIffTemplateAndCommand ==
    [][(ret'.op = "accept" /\ HasJobName(items[ret'.item])) =>
          LET i == ret'.item
              resolves == IsTemplateKey(ret'.setting)
          IN /\ ret'.outcome = "returned"
             /\ ret'.value = IF resolves /\ ret'.host.command_exists
                             THEN "accepted:True" ELSE "accepted:False"
             /\ IF resolves
                THEN /\ items'[i].properties["publish_template"]
                          = TemplateV(ret'.setting.s)
                     /\ ~items'[i].context_change_allowed
                     /\ items' = [items EXCEPT ![i] = items'[i]]
                ELSE items' = items]_vars

\* C10 witness: the template resolved and the command is missing: the item
\* is rejected with publish_template set and context change disabled.
C10_Witness ==
    /\ ret.op = "accept"
    /\ ~ret.host.command_exists
    /\ ret.value = "accepted:False"
    /\ HasProp(LastItem, "publish_template")
    /\ ~LastItem.context_change_allowed

------------------------------------------------------------------------------
(* Pipeline claims *)

\* C11: under the framework's sequence collected -> accepted -> validated ->
\* published, a render-job item collected from a never-saved session is
\* stopped at validate, which raises, and never reaches publish: while the
\* session path is empty publish is not called, the submission dialog is
\* not opened and none of its fields is edited.
C11_UnsavedNeverReachesPublish ==
    Len(session_path) = 0 =>
        /\ ret.op # "publish"
        /\ calls = <<>>
        /\ ~dialog.open
        /\ DOMAIN dialog.fields = {}
        /\ ret.op = "validate" => ret.outcome = "raised"

\* C11 witness: in a never-saved session the collector created the item
\* "RenderJob_False", accept accepted it (the template is stored on it) and
\* validate stored a path and raised the "not saved" error; the dialog is
\* closed.
C11_Witness ==
    /\ Len(session_path) = 0
    /\ ret.op = "validate"
    /\ ret.exc = "The Maya session has not been saved."
    /\ LastItem.name = <<"RenderJob_", "False">>
    /\ HasProp(LastItem, "publish_template")
    /\ HasProp(LastItem, "path")
    /\ ~dialog.open

\* the name "RenderJob_<scene name>" of the scene: the second-to-last
\* dot-separated part of the short file name, "False" for a never-saved scene
ExpectedJobName ==
    <<"RenderJob_">> \o
        (IF Len(sceneFile) = 0 THEN <<"False">>
         ELSE SplitDot(sceneFile)[Len(SplitDot(sceneFile)) - 1])

\* C12: every render-job item the collector creates carries a render_job_name
\* that is a string, not None and not empty, equal to the item's display name
\* "RenderJob_<derived name or False>"; so for collected items accept gets
\* past its job-name check (it returns, and rejects only for an unresolved
\* template or a missing submit command) and validate gets past its "No job
\* name" check (it returns False only when the base class validate did),
\* whether or not the scene was saved.
C12_CollectedJobNamePresent ==
    [][/\ \A k \in ItemsOfType(items', "maya.session.render_job") :
              /\ HasProp(items'[k], "render_job_name")
              /\ JobNameOf(items'[k]).t = "str"
              /\ Len(JobNameOf(items'[k]).s) > 0
              /\ JobNameOf(items'[k]).s = items'[k].name
              /\ items'[k].name = ExpectedJobName
       /\ ret'.op = "accept" =>
              /\ HasJobName(items[ret'.item])
              /\ ret'.outcome = "returned"
              /\ ret'.value = "accepted:False" =>
                     (~IsTemplateKey(ret'.setting) \/ ~ret'.host.command_exists)
       /\ ret'.op = "validate" =>
              /\ Truthy(JobNameOf(items[ret'.item]))
              /\ (ret'.outcome = "returned" /\ ret'.value = "False") =>
                     ret'.host.base = "False"]_vars

\* C12 witness: the item collected from a never-saved scene went through
\* accept and validate with its job name "RenderJob_False" in place, and
\* validate ended on the session check, not on the job name.
C12_Witness ==
    /\ Len(sceneFile) = 0
    /\ ret.op = "validate"
    /\ JobNameOf(LastItem) = Str(<<"RenderJob_", "False">>)
    /\ LastItem.name = <<"RenderJob_", "False">>
    /\ ret.outcome = "raised"

====
